---- MODULE Spec2Model ----
(***************************************************************************)
(* State-machine model of the Jira MCP agent evaluation harness:           *)
(*   - ApiCallValidation (state_validation.py): path resolver + evaluator  *)
(*   - trajectory.py / agent.py: event stream -> Trajectory                *)
(*   - eval_runner.py: run_single_eval / run_evals                         *)
(*   - runner_adk.py: main loop with container teardown                    *)
(* Four specifications share the module: Spec (run_evals), SpecAdk (main), *)
(* SpecRun (JiraMcpAgent.run) and SpecResolve (validate_response).         *)
(***************************************************************************)
EXTENDS Integers, Sequences, FiniteSets, TLC

VARIABLES
    \* ---- run_evals / run_single_eval (eval_runner.py)
    eval_data_list,   \* the batch handed to run_evals
    client_session,   \* mcp_server._client_session is set (truthy)
    server_pc,        \* position in JiraMCPServer.initialize
    started,          \* name of the container initialize started, or "none"
    pc,               \* position in run_evals
    i,                \* enumerate index of the case being run (1-based)
    k,                \* number of validation calls of the case already iterated
    trajectory,       \* local of run_single_eval
    is_valid,         \* local of run_single_eval
    invoked,          \* history: calls made on mcp_server.call_tool
    agent_runs,       \* history: prompts handed to agent.run
    ended,            \* history: how run_single_eval ended for each case
    failed_at,        \* history: first call of the case whose validation failed
    transport_at,     \* history: first call of the case the tool caller failed
    returned,         \* what run_evals handed back to its caller
    oplog,            \* history: the operations of the batch, in time order
    \* ---- main (runner_adk.py)
    adk_pc, adk_list, adk_i, container, adk_log, adk_exit,
    \* ---- JiraMcpAgent.run (agent.py) and parse_events_to_trajectory
    run_pc, prompt, timestamp_usr_msg, new_events, parsed,
    trajectory_messages, origin, run_result,
    \* ---- ApiCallValidation.validate_response
    val_pc, validation, response, path, outcome, resolved

varsEval == <<eval_data_list, client_session, server_pc, started, pc, i, k,
              trajectory, is_valid, invoked,
              agent_runs, ended, failed_at, transport_at, returned, oplog>>
varsAdk == <<adk_pc, adk_list, adk_i, container, adk_log, adk_exit>>
varsRun == <<run_pc, prompt, timestamp_usr_msg, new_events, parsed,
             trajectory_messages, origin, run_result>>
varsVal == <<val_pc, validation, response, path, outcome, resolved>>
vars == <<varsEval, varsAdk, varsRun, varsVal>>

-----------------------------------------------------------------------------
(* Python / JSON values as tagged records.                                 *)

\* Each value is a record with one field, named after its type, so that
\* values of different types are told apart by the field name alone.
None == [null |-> TRUE]
Bool(b) == [bool |-> b]
Num(n) == [num |-> n]
Str(s) == [str |-> s]
List(s) == [list |-> s]
Dict(f) == [dict |-> f]
\* a raised exception, as the outcome of a call
Exc(name) == [exc |-> name]
TypeOf(x) == CHOOSE f \in DOMAIN x : TRUE
ValOf(x) == x[TypeOf(x)]
IsExc(x) == DOMAIN x = {"exc"}

\* Python ==  on decoded JSON: structural on containers, numeric across
\* bool and number (True == 1), never equal across other types.
RECURSIVE PyEq(_, _)
PyEq(a, b) ==
    IF TypeOf(a) \in {"bool", "num"} /\ TypeOf(b) \in {"bool", "num"}
    THEN (IF TypeOf(a) = "bool" THEN (IF ValOf(a) THEN 1 ELSE 0) ELSE ValOf(a))
         = (IF TypeOf(b) = "bool" THEN (IF ValOf(b) THEN 1 ELSE 0) ELSE ValOf(b))
    ELSE IF TypeOf(a) # TypeOf(b) THEN FALSE
    ELSE IF TypeOf(a) = "null" THEN TRUE
    ELSE IF TypeOf(a) = "str" THEN ValOf(a) = ValOf(b)
    ELSE IF TypeOf(a) = "list"
    THEN /\ Len(ValOf(a)) = Len(ValOf(b))
         /\ \A j \in 1..Len(ValOf(a)) : PyEq(ValOf(a)[j], ValOf(b)[j])
    ELSE /\ DOMAIN ValOf(a) = DOMAIN ValOf(b)
         /\ \A key \in DOMAIN ValOf(a) : PyEq(ValOf(a)[key], ValOf(b)[key])

-----------------------------------------------------------------------------
(* Path resolver: ApiCallValidation._get_nested_value.                     *)
(* A path is a string, modelled as a sequence of characters; mapping keys  *)
(* are strings too.                                                        *)

\* characters int() reads as decimal digits
DecimalChars == {"0", "1"}
\* characters str.isdigit() accepts: the decimal digits and digit-like
\* characters such as SUPERSCRIPT TWO (U+00B2, written here by its
\* escape), which int() rejects
DigitChars == DecimalChars \cup {"\\u00b2"}
DigitValue(c) == IF c = "0" THEN 0 ELSE 1

\* str.split('.')
RECURSIVE SplitFrom(_, _)
SplitFrom(s, cur) ==
    IF s = <<>> THEN <<cur>>
    ELSE IF Head(s) = "." THEN <<cur>> \o SplitFrom(Tail(s), <<>>)
    ELSE SplitFrom(Tail(s), Append(cur, Head(s)))
Split(s) == SplitFrom(s, <<>>)

\* str.isdigit(): non-empty and every character a digit
IsDigit(part) == part # <<>> /\ \A j \in 1..Len(part) : part[j] \in DigitChars

\* int(part) for a part that passed isdigit(): ValueError unless decimal
RECURSIVE IntValue(_)
IntValue(part) ==
    IF part = <<>> THEN 0
    ELSE 10 * IntValue(SubSeq(part, 1, Len(part) - 1))
         + DigitValue(part[Len(part)])
IntOf(part) ==
    IF \A j \in 1..Len(part) : part[j] \in DecimalChars
    THEN Num(IntValue(part))
    ELSE Exc("ValueError")

\* the for-loop of _get_nested_value over the remaining parts
RECURSIVE Walk(_, _)
Walk(current, parts) ==
    IF parts = <<>> THEN current
    ELSE LET part == Head(parts) IN
         IF IsDigit(part)
         THEN LET index == IntOf(part) IN
              IF IsExc(index) THEN index
              ELSE IF /\ TypeOf(current) = "list"
                      /\ 0 <= ValOf(index) /\ ValOf(index) < Len(ValOf(current))
              THEN Walk(ValOf(current)[ValOf(index) + 1], Tail(parts))
              ELSE None
         ELSE IF TypeOf(current) = "dict" /\ part \in DOMAIN ValOf(current)
         THEN Walk(ValOf(current)[part], Tail(parts))
         ELSE None

get_nested_value(data, p) == Walk(data, Split(p))

-----------------------------------------------------------------------------
(* Validation evaluator: ApiCallValidation.validate_response.              *)
(* expected_fields is None or a sequence of [path, expected] in insertion  *)
(* order; expected_field_presence is None or a sequence of paths.          *)

RECURSIVE CheckFields(_, _)
CheckFields(fields, resp) ==
    IF fields = <<>> THEN Bool(TRUE)
    ELSE LET actual_value == get_nested_value(resp, Head(fields).path) IN
         IF IsExc(actual_value) THEN actual_value
         ELSE IF ~PyEq(actual_value, Head(fields).expected) THEN Bool(FALSE)
         ELSE CheckFields(Tail(fields), resp)

\* one presence entry: the test `_get_nested_value(...) is None`
PresenceFails(value) == value = None

RECURSIVE CheckPresence(_, _)
CheckPresence(paths, resp) ==
    IF paths = <<>> THEN Bool(TRUE)
    ELSE LET value == get_nested_value(resp, Head(paths)) IN
         IF IsExc(value) THEN value
         ELSE IF PresenceFails(value) THEN Bool(FALSE)
         ELSE CheckPresence(Tail(paths), resp)

\* variant: the method returns after the expected_fields block whenever
\* expected_fields is set, so the presence entries are then never looked at
validate_response_fields_only(v, resp) ==
    IF v.expected_fields # None /\ ValOf(v.expected_fields) # <<>>
    THEN CheckFields(ValOf(v.expected_fields), resp)
    ELSE CheckPresence(IF v.expected_field_presence = None THEN <<>>
                       ELSE ValOf(v.expected_field_presence), resp)

validate_response(v, resp) ==
    LET fields == IF v.expected_fields = None THEN <<>>
                  ELSE ValOf(v.expected_fields)
        first == CheckFields(fields, resp)
    IN IF TypeOf(first) # "bool" \/ ~ValOf(first) THEN first
       ELSE CheckPresence(IF v.expected_field_presence = None THEN <<>>
                          ELSE ValOf(v.expected_field_presence), resp)

-----------------------------------------------------------------------------
(* Trajectory reconstruction: trajectory.py.                               *)
(* An Event is [author, timestamp, content]; content is None or            *)
(* [parts |-> sequence of Part]; a Part is [text, function_call,           *)
(* function_response], each None when unset.  Text is a sequence of        *)
(* characters, so that "".join is concatenation.                           *)

Message(ts, auth, role, uti, atr, atc, tr) ==
    [timestamp |-> ts, author |-> auth, role |-> role,
     user_text_input |-> uti, assistant_text_response |-> atr,
     assistant_tool_calls |-> atc, tool_results |-> tr]

PartsOf(event) ==
    IF event.content = None THEN <<>> ELSE event.content.parts

\* "".join(text_parts)
RECURSIVE JoinText(_)
JoinText(texts) ==
    IF texts = <<>> THEN <<>> ELSE Head(texts) \o JoinText(Tail(texts))

\* extract_text_from_parts(event), exclude_function_parts = True
RECURSIVE TextOfParts(_)
TextOfParts(parts) ==
    IF parts = <<>> THEN <<>>
    ELSE LET part == Head(parts)
             has_text == part.text # None
             is_function_part ==
                 part.function_call # None \/ part.function_response # None
         IN (IF has_text /\ ~is_function_part THEN <<ValOf(part.text)>> ELSE <<>>)
            \o TextOfParts(Tail(parts))
extract_text_from_parts(event) == TextOfParts(PartsOf(event))

\* variant: the author is not tested, any event with text gives a user
\* message
process_user_message_any_author(event) ==
    LET text_parts == extract_text_from_parts(event) IN
    IF text_parts = <<>> THEN None
    ELSE Message(event.timestamp, event.author, "user",
                 Str(JoinText(text_parts)), None, None, None)

process_user_message(event) ==
    IF event.author # "user" THEN None
    ELSE LET text_parts == extract_text_from_parts(event) IN
         IF text_parts = <<>> THEN None
         ELSE Message(event.timestamp, event.author, "user",
                      Str(JoinText(text_parts)), None, None, None)

\* Event.get_function_responses(): the function_response of each part
RECURSIVE ResponsesOfParts(_)
ResponsesOfParts(parts) ==
    IF parts = <<>> THEN <<>>
    ELSE (IF Head(parts).function_response # None
          THEN <<Head(parts).function_response>> ELSE <<>>)
         \o ResponsesOfParts(Tail(parts))
get_function_responses(event) == ResponsesOfParts(PartsOf(event))

\* Event.get_function_calls(): the function_call of each part
RECURSIVE CallsOfParts(_)
CallsOfParts(parts) ==
    IF parts = <<>> THEN <<>>
    ELSE (IF Head(parts).function_call # None
          THEN <<Head(parts).function_call>> ELSE <<>>)
         \o CallsOfParts(Tail(parts))
get_function_calls(event) == CallsOfParts(PartsOf(event))

\* variant: only the name is tested, a response part without a result
\* body still gives an entry
create_tool_result_name_only(function_response) ==
    IF function_response.name = None THEN None
    ELSE [call_id |-> function_response.id,
          name |-> function_response.name,
          result_data |-> function_response.response,
          is_error |-> /\ TypeOf(function_response.response) = "dict"
                       /\ <<"error">> \in DOMAIN ValOf(function_response.response)]

create_tool_result(function_response) ==
    IF function_response.name = None \/ function_response.response = None
    THEN None
    ELSE [call_id |-> function_response.id,
          name |-> function_response.name,
          result_data |-> function_response.response,
          is_error |-> /\ TypeOf(function_response.response) = "dict"
                       /\ <<"error">> \in DOMAIN ValOf(function_response.response)]

RECURSIVE ToolResults(_)
ToolResults(function_responses) ==
    IF function_responses = <<>> THEN <<>>
    ELSE LET tool_result == create_tool_result(Head(function_responses)) IN
         (IF tool_result # None THEN <<tool_result>> ELSE <<>>)
         \o ToolResults(Tail(function_responses))

process_tool_responses(event) ==
    LET function_responses == get_function_responses(event) IN
    IF function_responses = <<>> THEN None
    ELSE LET tool_results == ToolResults(function_responses) IN
         IF tool_results = <<>> THEN None
         ELSE Message(event.timestamp, event.author, "tool",
                      None, None, None, List(tool_results))

create_tool_call(function_call) ==
    IF function_call.name = None \/ function_call.args = None THEN None
    ELSE [call_id |-> function_call.id, name |-> function_call.name,
          args |-> function_call.args]

RECURSIVE ToolCalls(_)
ToolCalls(function_calls) ==
    IF function_calls = <<>> THEN <<>>
    ELSE LET tool_call == create_tool_call(Head(function_calls)) IN
         (IF tool_call # None THEN <<tool_call>> ELSE <<>>)
         \o ToolCalls(Tail(function_calls))

\* variant: the joined text is read for truthiness when it is built
\* ("".join(text_parts) or None), so an empty text becomes no text
process_assistant_message_empty_as_none(event) ==
    IF event.author = "user" THEN None
    ELSE LET text_parts == extract_text_from_parts(event)
             text_response == IF JoinText(text_parts) # <<>>
                              THEN Str(JoinText(text_parts)) ELSE None
             tool_calls == ToolCalls(get_function_calls(event))
         IN IF ~(text_response # None \/ tool_calls # <<>>) THEN None
            ELSE Message(event.timestamp, event.author, "assistant",
                         None, text_response,
                         IF tool_calls # <<>> THEN List(tool_calls) ELSE None,
                         None)

process_assistant_message(event) ==
    IF event.author = "user" THEN None
    ELSE LET text_parts == extract_text_from_parts(event)
             text_response == IF text_parts # <<>>
                              THEN Str(JoinText(text_parts)) ELSE None
             tool_calls == ToolCalls(get_function_calls(event))
             \* truthiness: None and "" are both falsy, [] is falsy
             text_truthy == text_response # None /\ ValOf(text_response) # <<>>
         IN IF ~(text_truthy \/ tool_calls # <<>>) THEN None
            ELSE Message(event.timestamp, event.author, "assistant",
                         None, text_response,
                         IF tool_calls # <<>> THEN List(tool_calls) ELSE None,
                         None)

\* variant: the assistant message is appended before the tool message
EventMessageOrderAssistantFirst(user_message, tool_message, assistant_message) ==
    <<user_message, assistant_message, tool_message>>

\* the order in which one loop iteration of parse_events_to_trajectory
\* appends the three optional messages of an event
EventMessageOrder(user_message, tool_message, assistant_message) ==
    <<user_message, tool_message, assistant_message>>

\* one loop iteration: the messages appended for `event`
EventMessages(event) ==
    SelectSeq(EventMessageOrder(process_user_message(event),
                                process_tool_responses(event),
                                process_assistant_message(event)),
              LAMBDA m : m # None)

RECURSIVE parse_events_to_trajectory(_)
parse_events_to_trajectory(events) ==
    IF events = <<>> THEN <<>>
    ELSE EventMessages(Head(events)) \o parse_events_to_trajectory(Tail(events))

-----------------------------------------------------------------------------
(* JiraMcpAgent.run: agent.py.                                             *)

MaxEvents == 2

\* self.agent_name of the LlmAgent authoring the non-user events
AgentName == "JiraMCPAgent"

TextPart(s) ==
    [text |-> Str(s), function_call |-> None, function_response |-> None]
CallPart(name, args) ==
    [text |-> None,
     function_call |-> [id |-> Str("c1"), name |-> name, args |-> args],
     function_response |-> None]
RespPart(name, resp) ==
    [text |-> None, function_call |-> None,
     function_response |-> [id |-> Str("c1"), name |-> name, response |-> resp]]

ToolName == Str("jira_create_issue")
OkBody == Dict(<<"key">> :> Str("MBA-1"))
ErrBody == Dict(<<"error">> :> Str("boom"))

\* what the runner can put in an event: no content, no parts, text
\* (also empty, also the prompt itself), requests and responses, well
\* formed or with a missing sub-field, and mixtures
EventContents ==
    { None,
      [parts |-> <<>>],
      [parts |-> <<TextPart(<<"a">>)>>],
      [parts |-> <<TextPart(<<>>)>>],
      [parts |-> <<CallPart(ToolName, Dict(<<>>))>>],
      [parts |-> <<CallPart(None, Dict(<<>>))>>],
      [parts |-> <<RespPart(ToolName, OkBody)>>],
      [parts |-> <<RespPart(None, OkBody)>>],
      [parts |-> <<TextPart(<<"a">>), CallPart(ToolName, Dict(<<>>))>>],
      [parts |-> <<TextPart(<<"a">>), RespPart(ToolName, OkBody)>>],
      [parts |-> <<RespPart(ToolName, ErrBody), TextPart(<<"b">>)>>],
      [parts |-> <<RespPart(ToolName, ErrBody), RespPart(ToolName, OkBody)>>],
      [parts |-> <<RespPart(ToolName, None)>>],
      [parts |-> <<TextPart(<<>>), CallPart(ToolName, Dict(<<>>))>>],
      [parts |-> <<TextPart(<<>>), TextPart(<<>>), CallPart(ToolName, None)>>],
      [parts |-> <<RespPart(None, OkBody), RespPart(ToolName, ErrBody),
                   RespPart(ToolName, None), RespPart(ToolName, OkBody)>>] }

EventShapes == [author : {"user", AgentName}, content : EventContents]

Prompts == {<<"a">>, <<"h", "i">>}
SubmitTimes == {100, 200}

\* the Message built from the prompt before the runner is started
UserMsg(p, ts) == Message(ts, "user", "user", Str(p), None, None, None)

\* variant: the prompt message is left out when the events already start
\* with a user message carrying the same text
InsertUserMsgUnlessPresent(messages, user_msg) ==
    IF /\ messages # <<>>
       /\ Head(messages).role = "user"
       /\ Head(messages).user_text_input = user_msg.user_text_input
    THEN messages
    ELSE <<user_msg>> \o messages

\* trajectory.messages.insert(0, user_msg)
InsertUserMsg(messages, user_msg) == <<user_msg>> \o messages

\* variant: run() leaves the `async for` after the first event, the rest
\* of the stream is not consumed
JiraMcpAgent_run_first_event(p, ts, events) ==
    InsertUserMsg(parse_events_to_trajectory(
                      IF events = <<>> THEN <<>> ELSE <<Head(events)>>),
                  UserMsg(p, ts))

\* JiraMcpAgent.run as a function of what the runner yielded
JiraMcpAgent_run(p, ts, events) ==
    InsertUserMsg(parse_events_to_trajectory(events), UserMsg(p, ts))

IdleRun ==
    /\ run_pc = "idle" /\ prompt = <<>> /\ timestamp_usr_msg = 0
    /\ new_events = <<>> /\ parsed = 0 /\ trajectory_messages = <<>>
    /\ origin = <<>> /\ run_result = None

InitRun ==
    /\ run_pc = "start"
    /\ prompt \in Prompts
    /\ timestamp_usr_msg = 0
    /\ new_events = <<>>
    /\ parsed = 0
    /\ trajectory_messages = <<>>
    /\ origin = <<>>
    /\ run_result = None

\* create_session, the timestamp, user_msg and content, up to run_async
Submit ==
    /\ run_pc = "start"
    /\ timestamp_usr_msg' \in SubmitTimes
    /\ run_pc' = "streaming"
    /\ UNCHANGED <<prompt, new_events, parsed, trajectory_messages, origin,
                   run_result>>
    /\ UNCHANGED <<varsEval, varsAdk, varsVal>>

\* async for event in runner.run_async(...): new_events.append(event)
RunnerYield ==
    /\ run_pc = "streaming"
    /\ Len(new_events) < MaxEvents
    /\ \E shape \in EventShapes :
          new_events' = Append(new_events,
              [author |-> shape.author,
               timestamp |-> timestamp_usr_msg + Len(new_events) + 1,
               content |-> shape.content])
    /\ UNCHANGED <<run_pc, prompt, timestamp_usr_msg, parsed,
                   trajectory_messages, origin, run_result>>
    /\ UNCHANGED <<varsEval, varsAdk, varsVal>>

\* create_session or the runner raises: run() propagates the exception
RunRaises ==
    /\ run_pc \in {"start", "streaming"}
    /\ run_pc' = "raised"
    /\ run_result' = Exc("Exception")
    /\ UNCHANGED <<prompt, timestamp_usr_msg, new_events, parsed,
                   trajectory_messages, origin>>
    /\ UNCHANGED <<varsEval, varsAdk, varsVal>>

\* the stream is exhausted; parse_events_to_trajectory(new_events) starts
StreamEnds ==
    /\ run_pc = "streaming"
    /\ run_pc' = "parsing"
    /\ UNCHANGED <<prompt, timestamp_usr_msg, new_events, parsed,
                   trajectory_messages, origin, run_result>>
    /\ UNCHANGED <<varsEval, varsAdk, varsVal>>

\* one iteration of `for event in events` in parse_events_to_trajectory;
\* origin records which event each appended message came from
ParseEvent ==
    /\ run_pc = "parsing"
    /\ parsed < Len(new_events)
    /\ LET added == EventMessages(new_events[parsed + 1]) IN
       /\ trajectory_messages' = trajectory_messages \o added
       /\ origin' = origin \o [j \in 1..Len(added) |-> parsed + 1]
    /\ parsed' = parsed + 1
    /\ UNCHANGED <<run_pc, prompt, timestamp_usr_msg, new_events, run_result>>
    /\ UNCHANGED <<varsEval, varsAdk, varsVal>>

\* Trajectory(messages=...), insert(0, user_msg), return trajectory
RunReturns ==
    /\ run_pc = "parsing"
    /\ parsed = Len(new_events)
    /\ run_result' = List(InsertUserMsg(trajectory_messages,
                                        UserMsg(prompt, timestamp_usr_msg)))
    /\ run_pc' = "returned"
    /\ UNCHANGED <<prompt, timestamp_usr_msg, new_events, parsed,
                   trajectory_messages, origin>>
    /\ UNCHANGED <<varsEval, varsAdk, varsVal>>

NextRun ==
    Submit \/ RunnerYield \/ RunRaises \/ StreamEnds \/ ParseEvent \/ RunReturns

-----------------------------------------------------------------------------
(* Inputs of the validation specifications.                                *)

MaxSegs == 3

\* the segments paths are built from: keys, indices, an index with a
\* leading zero, and a digit-like segment that is not decimal
Segments == {<<"a">>, <<"b">>, <<"0">>, <<"1">>, <<"0", "1">>, <<"\\u00b2">>}

RECURSIVE Join(_)
Join(segs) ==
    IF Len(segs) = 1 THEN Head(segs)
    ELSE Head(segs) \o <<".">> \o Join(Tail(segs))

RECURSIVE SegSeqs(_)
SegSeqs(n) ==
    IF n = 0 THEN {<<>>}
    ELSE SegSeqs(n - 1)
         \cup {Append(q, s) : q \in {r \in SegSeqs(n - 1) : Len(r) = n - 1},
                              s \in Segments}
Paths == {Join(segs) : segs \in SegSeqs(MaxSegs) \ {<<>>}}

Ka == <<"a">>
Kb == <<"b">>
\* decoded tool responses (json.loads of the tool's text content)
Responses ==
    { Dict(Ka :> List(<<Dict(Kb :> Str("x")), None>>) @@ Kb :> None),
      Dict(<<"0">> :> Str("x")
           @@ Ka :> Dict(<<"1">> :> Num(1) @@ Kb :> List(<<Bool(TRUE)>>))),
      List(<<Str("x"), Dict(Ka :> Num(1))>>),
      Dict(<<>>),
      Str("x"),
      Dict(Ka :> Str("x")),
      Dict(Ka :> Str("y")),
      None }

ExpectedValues == {None, Str("x"), Num(1)}

\* a second path, declared next to the tested one in the validations
\* that hold two entries
K0 == <<"0">>

\* expected_fields of the validations that test path p: unset, empty, one
\* entry, or two entries (a dict holds a path once)
FieldOptions(p) ==
    {None, List(<<>>)}
    \cup {List(<<[path |-> p, expected |-> e]>>) : e \in ExpectedValues}
    \cup (IF p = K0 THEN {}
          ELSE {List(<<[path |-> K0, expected |-> Str("x")],
                       [path |-> p, expected |-> e]>>) : e \in ExpectedValues})

\* expected_field_presence of the validations that test path p
PresenceOptions(p) ==
    {None, List(<<>>), List(<<p>>)}
    \cup (IF p = K0 THEN {} ELSE {List(<<p, K0>>)})

\* the ApiCallValidation objects that test path p
ValidationsFor(p) ==
    [ tool_name : {"jira_search"},
      arguments : {"jql"},
      expected_fields : FieldOptions(p),
      expected_field_presence : PresenceOptions(p) ]

NoValidation ==
    [tool_name |-> "", arguments |-> "", expected_fields |-> None,
     expected_field_presence |-> None]

-----------------------------------------------------------------------------
(* run_single_eval / run_evals: eval_runner.py.                            *)

MaxCases == 2
MaxCalls == 2

\* the j-th declared validation call of a case: odd positions compare a
\* field, even positions require its presence
CallAt(j) ==
    IF j % 2 = 1
    THEN [tool_name |-> "jira_search", arguments |-> Dict(<<"limit">> :> Num(j)),
          expected_fields |->
              List(<<[path |-> Ka, expected |-> Str("x")]>>),
          expected_field_presence |-> None]
    ELSE [tool_name |-> "jira_get_issue",
          arguments |-> Dict(<<"limit">> :> Num(j)),
          expected_fields |-> None,
          expected_field_presence |-> List(<<Ka>>)]

DeclaredCalls(n) == [j \in 1..n |-> CallAt(j)]

Configs ==
    {None} \cup [state_validation_calls : {DeclaredCalls(n) : n \in 0..MaxCalls},
                 fail_fast : BOOLEAN]

Cases ==
    [task_context : [goal : {"Create a single task in Jira"},
                     intial_message : {<<"a">>}],
     state_validation_config : Configs]

RECURSIVE CaseLists(_)
CaseLists(n) ==
    IF n = 0 THEN {<<>>}
    ELSE CaseLists(n - 1)
         \cup {Append(q, c) : q \in {r \in CaseLists(n - 1) : Len(r) = n - 1},
                              c \in Cases}

\* NewEvalDataPoint.prompt
PromptOf(eval_dp) == eval_dp.task_context.intial_message

\* json.loads(content.text) on the texts the tool returns here
json_loads(text) ==
    CASE text = "{\"a\": \"x\"}" -> Dict(Ka :> Str("x"))
      [] text = "{\"a\": \"y\"}" -> Dict(Ka :> Str("y"))
      [] text = "{\"a\": null}" -> Dict(Ka :> None)
      [] OTHER -> Exc("JSONDecodeError")

ToolTexts == {"{\"a\": \"x\"}", "{\"a\": \"y\"}", "{\"a\": null}", "oops"}

\* what `await self._client_session.call_tool(...)` can produce: a
\* CallToolResult whose content carries a text, one whose content carries
\* none (line 25 of eval_runner.py only annotates it as TextContent; a
\* list of content blocks has no .text), or an exception of the session
\* (transport failure)
ToolOutcomes ==
    {Exc("McpError"), [content |-> List(<<>>)]}
    \cup {[content |-> [text |-> x]] : x \in ToolTexts}

\* JiraMCPServer.call_tool: RuntimeError when the server holds no client
\* session, else what the session's call_tool produces
call_tool(session) ==
    IF ~session THEN {Exc("RuntimeError")} ELSE ToolOutcomes

\* variant: a failure of the tool caller is turned into a failed verdict
ValidateCallSwallow(v, tool_outcome) ==
    IF IsExc(tool_outcome) THEN Bool(FALSE)
    ELSE IF "text" \notin DOMAIN tool_outcome.content
         THEN Exc("AttributeError")
    ELSE LET content_dict == json_loads(tool_outcome.content.text) IN
         IF IsExc(content_dict) THEN content_dict
         ELSE validate_response(v, content_dict)

\* lines 21-27 of one loop iteration: is_valid, or the exception raised
\* by call_tool, content.text, json.loads or validate_response
ValidateCall(v, tool_outcome) ==
    IF IsExc(tool_outcome) THEN tool_outcome
    ELSE IF "text" \notin DOMAIN tool_outcome.content
         THEN Exc("AttributeError")
    ELSE LET content_dict == json_loads(tool_outcome.content.text) IN
         IF IsExc(content_dict) THEN content_dict
         ELSE validate_response(v, content_dict)

\* variant: the loop stops at any failed validation
StopsAfterAnyFailure(fail_fast, valid) == ~valid

\* lines 29-32: whether the loop over the calls stops after this call.
\* The branch body is `pass` (TODO: Handle fail fast logic).
StopsAfter(fail_fast, valid) == FALSE

\* variant: the exception leaves run_evals
ExceptTargetPropagate == "propagated"

\* lines 53-55: where run_evals goes when run_single_eval raised
\* (`except Exception`: print, continue)
ExceptTarget == "loop"

\* the events the runner yields for the j-th case of a batch: a request
\* and its response at odd positions, nothing at even positions
BatchEvents(j) ==
    IF j % 2 = 1
    THEN {<<[author |-> AgentName, timestamp |-> 101,
             content |-> [parts |-> <<CallPart(ToolName, Dict(<<>>))>>]],
            [author |-> AgentName, timestamp |-> 102,
             content |-> [parts |-> <<RespPart(ToolName, OkBody)>>]]>>}
    ELSE {<<>>}

\* history entry: one operation of the batch. op is "run_start" (agent.run
\* is called), "run_end" (it returned, having consumed `events`),
\* "run_raised", "call" (call_tool is invoked for call `index`, with the
\* `trajectory` local as it is then), "case_end" (run_single_eval
\* returned) or "case_failed" (its exception reached the except clause)
Op(op, case, index, events, traj) ==
    [op |-> op, case |-> case, index |-> index, events |-> events,
     trajectory |-> traj]

\* history entry: how run_single_eval ended for a case ("returned", or
\* the exception that left it), at which call, and the first call on
\* which the tool caller failed (0: none)
EndEntry(how, at, transport) ==
    [how |-> how, at |-> at, transport_at |-> transport]

IdleEval ==
    /\ eval_data_list = <<>> /\ client_session = FALSE
    /\ server_pc = "start" /\ started = "none"
    /\ pc = "idle" /\ i = 0 /\ k = 0
    /\ trajectory = None /\ is_valid = None /\ invoked = <<>>
    /\ agent_runs = <<>> /\ ended = <<>> /\ failed_at = 0
    /\ transport_at = 0 /\ returned = Exc("pending") /\ oplog = <<>>

InitEval ==
    /\ eval_data_list \in CaseLists(MaxCases)
    /\ client_session = FALSE
    /\ server_pc = "start"
    /\ started = "none"
    /\ pc = "server"
    /\ i = 0
    /\ k = 0
    /\ trajectory = None
    /\ is_valid = None
    /\ invoked = <<>>
    /\ agent_runs = <<>>
    /\ ended = <<>>
    /\ failed_at = 0
    /\ transport_at = 0
    /\ returned = Exc("pending")
    /\ oplog = <<>>

Config == eval_data_list[i].state_validation_config

\* the names initialize is given for its container: the default of its
\* container_name parameter, and another one
ContainerNames == {"mcp-atlassian", "mcp-other"}

\* what holds of every step of the server's construction
ServerFrame ==
    /\ UNCHANGED <<eval_data_list, i, k, trajectory, is_valid, invoked,
                   agent_runs, ended, failed_at, transport_at, returned,
                   oplog>>
    /\ UNCHANGED <<adk_pc, adk_list, adk_i, adk_log, adk_exit>>
    /\ UNCHANGED <<varsRun, varsVal>>

\* JiraMCPServer.initialize(..., container_name) up to the await of line
\* 79: mcp_session_manager.create_session() is called and starts the
\* container `docker run --rm -i --name <container_name>`, or raises at
\* once with no container started
Initialize ==
    /\ pc = "server"
    /\ server_pc = "start"
    /\ \E container_name \in ContainerNames :
          \/ /\ started' = container_name
             /\ container' = IF container_name = "mcp-atlassian"
                             THEN "running" ELSE container
             /\ server_pc' = "create_session"
             /\ pc' = pc
          \/ /\ started' = started
             /\ container' = container
             /\ server_pc' = "raised"
             /\ pc' = "no_server"
    /\ client_session' = client_session
    /\ ServerFrame

\* line 79: `await mcp_session_manager.create_session()` returns the
\* client session, or raises out of initialize
CreateSession ==
    /\ pc = "server"
    /\ server_pc = "create_session"
    /\ \/ server_pc' = "list_tools" /\ pc' = pc
       \/ server_pc' = "raised" /\ pc' = "no_server"
    /\ UNCHANGED <<client_session, started, container>>
    /\ ServerFrame

\* lines 81-96: `await client_session.list_tools()` returns and
\* cls(mcp_session_manager, client_session, tools) holds the session, or
\* list_tools raises out of initialize
ListTools ==
    /\ pc = "server"
    /\ server_pc = "list_tools"
    /\ \/ /\ client_session' = TRUE
          /\ server_pc' = "done"
          /\ pc' = "loop"
       \/ /\ client_session' = client_session
          /\ server_pc' = "raised"
          /\ pc' = "no_server"
    /\ UNCHANGED <<started, container>>
    /\ ServerFrame

\* JiraMCPServer(mcp_session_manager, client_session, tools) built by its
\* constructor with no client session
Construct ==
    /\ pc = "server"
    /\ server_pc = "start"
    /\ client_session' = FALSE
    /\ server_pc' = "done"
    /\ pc' = "loop"
    /\ UNCHANGED <<started, container>>
    /\ ServerFrame

\* for i, eval_data in enumerate(eval_data_list): enter the try block and
\* call agent.run(prompt=eval_dp.prompt)
NextCase ==
    /\ pc = "loop"
    /\ i < Len(eval_data_list)
    /\ i' = i + 1
    /\ pc' = "agent_run"
    /\ failed_at' = 0
    /\ transport_at' = 0
    /\ oplog' = Append(oplog, Op("run_start", i + 1, 0, <<>>, None))
    /\ agent_runs' = Append(agent_runs,
           [case |-> i + 1, prompt |-> PromptOf(eval_data_list[i + 1])])
    /\ UNCHANGED <<eval_data_list, client_session, server_pc, started,
                   k, trajectory, is_valid,
                   invoked, ended, returned>>
    /\ UNCHANGED <<varsAdk, varsRun, varsVal>>

\* the list is exhausted: run_evals returns (None)
Finish ==
    /\ pc = "loop"
    /\ i = Len(eval_data_list)
    /\ pc' = "done"
    /\ returned' = None
    /\ UNCHANGED <<eval_data_list, client_session, server_pc, started,
                   i, k, trajectory, is_valid, invoked,
                   agent_runs, ended, failed_at, transport_at, oplog>>
    /\ UNCHANGED <<varsAdk, varsRun, varsVal>>

\* trajectory = await agent.run(prompt=eval_dp.prompt) returns; then
\* `if eval_dp.state_validation_config:` enters the loop over the calls
AgentRunReturns ==
    /\ pc = "agent_run"
    /\ \E events \in BatchEvents(i) :
          LET result == List(JiraMcpAgent_run(PromptOf(eval_data_list[i]),
                                              100, events))
          IN IF Config = None
             THEN /\ pc' = "loop"
                  /\ trajectory' = None
                  /\ ended' = Append(ended, EndEntry("returned", 0, 0))
                  /\ oplog' = oplog \o <<Op("run_end", i, 0, events, None),
                                         Op("case_end", i, 0, <<>>, None)>>
             ELSE /\ pc' = "validate"
                  /\ trajectory' = result
                  /\ ended' = ended
                  /\ oplog' = Append(oplog,
                                     Op("run_end", i, 0, events, None))
    /\ k' = 0
    /\ is_valid' = None
    /\ UNCHANGED <<eval_data_list, client_session, server_pc, started,
                   i, invoked, agent_runs,
                   failed_at, transport_at, returned>>
    /\ UNCHANGED <<varsAdk, varsRun, varsVal>>

\* agent.run raises: the except clause of run_evals takes over
AgentRunRaises ==
    /\ pc = "agent_run"
    /\ ended' = Append(ended, EndEntry("Exception", 0, 0))
    /\ oplog' = oplog \o <<Op("run_raised", i, 0, <<>>, None),
                           Op("case_failed", i, 0, <<>>, None)>>
    /\ pc' = ExceptTarget
    /\ UNCHANGED <<eval_data_list, client_session, server_pc, started,
                   i, k, trajectory, is_valid,
                   invoked, agent_runs, failed_at, transport_at, returned>>
    /\ UNCHANGED <<varsAdk, varsRun, varsVal>>

\* one iteration of `for validation in ...state_validation_calls`, up to
\* the await of line 21: mcp_server.call_tool(...) is called
ValidationCall ==
    /\ pc = "validate"
    /\ k < Len(Config.state_validation_calls)
    /\ LET v == Config.state_validation_calls[k + 1] IN
       invoked' = Append(invoked,
              [case |-> i, index |-> k + 1, name |-> v.tool_name,
               arguments |-> v.arguments])
    /\ oplog' = Append(oplog, Op("call", i, k + 1, <<>>, trajectory))
    /\ pc' = "call_tool"
    /\ UNCHANGED <<eval_data_list, client_session, server_pc, started,
                   i, k, trajectory, is_valid,
                   agent_runs, ended, failed_at, transport_at, returned>>
    /\ UNCHANGED <<varsAdk, varsRun, varsVal>>

\* the rest of the iteration: call_tool returns or raises, then lines
\* 25-32
ValidationResult ==
    /\ pc = "call_tool"
    /\ LET v == Config.state_validation_calls[k + 1] IN
       \E tool_outcome \in call_tool(client_session) :
             LET result == ValidateCall(v, tool_outcome)
                 transport == IF IsExc(tool_outcome) /\ transport_at = 0
                              THEN k + 1 ELSE transport_at
                 failed == IF ~IsExc(result) /\ ~ValOf(result) /\ failed_at = 0
                           THEN k + 1 ELSE failed_at
             IN
             /\ transport_at' = transport
             /\ failed_at' = failed
             /\ IF IsExc(result)
                THEN /\ pc' = ExceptTarget
                     /\ ended' = Append(ended,
                            EndEntry(ValOf(result), k + 1, transport))
                     /\ trajectory' = None
                     /\ is_valid' = None
                     /\ k' = 0
                     /\ oplog' = Append(oplog,
                            Op("case_failed", i, 0, <<>>, None))
                ELSE /\ is_valid' = result
                     /\ k' = k + 1
                     /\ IF StopsAfter(Config.fail_fast, ValOf(result))
                        THEN /\ pc' = "loop"
                             /\ trajectory' = None
                             /\ ended' = Append(ended,
                                    EndEntry("returned", 0, transport))
                             /\ oplog' = Append(oplog,
                                    Op("case_end", i, 0, <<>>, None))
                        ELSE /\ pc' = "validate"
                             /\ trajectory' = trajectory
                             /\ ended' = ended
                             /\ oplog' = oplog
    /\ UNCHANGED <<eval_data_list, client_session, server_pc, started,
                   i, invoked, agent_runs,
                   returned>>
    /\ UNCHANGED <<varsAdk, varsRun, varsVal>>

\* the loop over the calls is exhausted: run_single_eval returns
CaseReturns ==
    /\ pc = "validate"
    /\ k = Len(Config.state_validation_calls)
    /\ pc' = "loop"
    /\ ended' = Append(ended, EndEntry("returned", 0, transport_at))
    /\ oplog' = Append(oplog, Op("case_end", i, 0, <<>>, None))
    /\ trajectory' = None
    /\ is_valid' = None
    /\ k' = 0
    /\ UNCHANGED <<eval_data_list, client_session, server_pc, started,
                   i, invoked, agent_runs, failed_at,
                   transport_at, returned>>
    /\ UNCHANGED <<varsAdk, varsRun, varsVal>>

NextEval ==
    Initialize \/ CreateSession \/ ListTools \/ Construct \/ NextCase \/ Finish \/ AgentRunReturns
    \/ AgentRunRaises \/ ValidationCall \/ ValidationResult \/ CaseReturns

-----------------------------------------------------------------------------
(* main: runner_adk.py, the CSV-driven loop with container teardown.       *)
(* container is the state of the "mcp-atlassian" Docker container.         *)

\* variant: the stop leaves the container alone
manage_docker_container_noop(c) == {[container |-> c, raised |-> FALSE]}

\* manage_docker_container("stop"): `docker rm -f` removes the container;
\* "No such container" is swallowed; any other CalledProcessError is
\* re-raised and leaves the container as it was
manage_docker_container(c) ==
    IF c = "running"
    THEN {[container |-> "absent", raised |-> FALSE],
          [container |-> "running", raised |-> TRUE]}
    ELSE {[container |-> "absent", raised |-> FALSE],
          [container |-> "absent", raised |-> TRUE]}

StopEntry(site, o) == [ev |-> "stop", site |-> site, raised |-> o.raised]

IdleAdk ==
    /\ adk_pc = "idle" /\ adk_list = <<>> /\ adk_i = 0
    /\ container = "absent" /\ adk_log = <<>> /\ adk_exit = None

InitAdk ==
    /\ adk_pc = "env"
    /\ adk_list \in {[j \in 1..n |-> <<"a">>] : n \in 0..MaxCases}
    /\ adk_i = 0
    /\ container \in {"absent", "running"}
    /\ adk_log = <<>>
    /\ adk_exit = None

\* validate_environment() raises ValueError: sys.exit(1)
EnvInvalid ==
    /\ adk_pc = "env"
    /\ adk_pc' = "exit"
    /\ adk_exit' = Num(1)
    /\ UNCHANGED <<adk_list, adk_i, container, adk_log>>
    /\ UNCHANGED <<varsEval, varsRun, varsVal>>

EnvValid ==
    /\ adk_pc = "env"
    /\ adk_pc' = "load"
    /\ UNCHANGED <<adk_list, adk_i, container, adk_log, adk_exit>>
    /\ UNCHANGED <<varsEval, varsRun, varsVal>>

\* load_eval_data: raises, or returns the list (ValueError when empty);
\* an exception goes to the outer except and finally
LoadData ==
    /\ adk_pc = "load"
    /\ \/ adk_list # <<>> /\ adk_pc' = "loop"
       \/ adk_pc' = "outer_finally"
    /\ UNCHANGED <<adk_list, adk_i, container, adk_log, adk_exit>>
    /\ UNCHANGED <<varsEval, varsRun, varsVal>>

\* for i, eval_data in enumerate(eval_data_list)
LoopHeader ==
    /\ adk_pc = "loop"
    /\ IF adk_i < Len(adk_list)
       THEN adk_i' = adk_i + 1 /\ adk_pc' = "loop_stop"
       ELSE adk_i' = adk_i /\ adk_pc' = "outer_finally"
    /\ UNCHANGED <<adk_list, container, adk_log, adk_exit>>
    /\ UNCHANGED <<varsEval, varsRun, varsVal>>

\* line 131: stop before the case
StopBefore ==
    /\ adk_pc = "loop_stop"
    /\ \E o \in manage_docker_container(container) :
          /\ container' = o.container
          /\ adk_log' = Append(adk_log, StopEntry("before", o))
          /\ adk_pc' = IF o.raised THEN "outer_finally" ELSE "run"
    /\ UNCHANGED <<adk_list, adk_i, adk_exit>>
    /\ UNCHANGED <<varsEval, varsRun, varsVal>>

\* run_evaluation up to the await of create_agent: MCPToolset.from_server
\* starts the "mcp-atlassian" container (docker run --name); an exception
\* leaves run_evaluation and is printed and swallowed by lines 143-144
CreateAgent ==
    /\ adk_pc = "run"
    /\ \E raised \in BOOLEAN :
          IF raised
          THEN /\ container' \in {container, "running"}
               /\ adk_log' = Append(adk_log,
                      [ev |-> "run", case |-> adk_i, raised |-> TRUE])
               /\ adk_pc' = "finally_stop"
          ELSE /\ container' = "running"
               /\ adk_log' = adk_log
               /\ adk_pc' = "run_agent"
    /\ UNCHANGED <<adk_list, adk_i, adk_exit>>
    /\ UNCHANGED <<varsEval, varsRun, varsVal>>

\* await run_agent(...): the event stream is consumed with the container
\* running; run_evaluation returns, or raises into lines 143-144
RunAgent ==
    /\ adk_pc = "run_agent"
    /\ \E raised \in BOOLEAN :
          adk_log' = Append(adk_log,
                 [ev |-> "run", case |-> adk_i, raised |-> raised])
    /\ adk_pc' = "finally_stop"
    /\ UNCHANGED <<adk_list, adk_i, container, adk_exit>>
    /\ UNCHANGED <<varsEval, varsRun, varsVal>>

\* lines 134-144: run_evaluation (create_agent, then run_agent); an
\* exception is printed and swallowed
RunEvaluation == CreateAgent \/ RunAgent

\* lines 145-148: finally: stop after the case
StopAfter ==
    /\ adk_pc = "finally_stop"
    /\ \E o \in manage_docker_container(container) :
          /\ container' = o.container
          /\ adk_log' = Append(adk_log, StopEntry("after", o))
          /\ adk_pc' = IF o.raised THEN "outer_finally" ELSE "loop"
    /\ UNCHANGED <<adk_list, adk_i, adk_exit>>
    /\ UNCHANGED <<varsEval, varsRun, varsVal>>

\* lines 153-157: outer finally: stop, then sys.exit(0); an exception of
\* this stop leaves main
StopFinal ==
    /\ adk_pc = "outer_finally"
    /\ \E o \in manage_docker_container(container) :
          /\ container' = o.container
          /\ adk_log' = Append(adk_log, StopEntry("final", o))
          /\ adk_exit' = IF o.raised THEN Exc("CalledProcessError") ELSE Num(0)
    /\ adk_pc' = "exit"
    /\ UNCHANGED <<adk_list, adk_i>>
    /\ UNCHANGED <<varsEval, varsRun, varsVal>>

NextAdk ==
    EnvInvalid \/ EnvValid \/ LoadData \/ LoopHeader \/ StopBefore
    \/ RunEvaluation \/ StopAfter \/ StopFinal

-----------------------------------------------------------------------------
(* SpecResolve: one validate_response evaluation.                          *)

IdleVal ==
    /\ val_pc = "idle" /\ validation = NoValidation /\ response = None
    /\ path = <<>> /\ outcome = None /\ resolved = None

InitVal ==
    /\ val_pc = "start"
    /\ path \in Paths
    /\ response \in Responses
    /\ validation \in ValidationsFor(path)
    /\ outcome = None
    /\ resolved = None

\* self._get_nested_value(response, field_path)
Resolve ==
    /\ val_pc = "start"
    /\ resolved' = get_nested_value(response, path)
    /\ val_pc' = "resolved"
    /\ UNCHANGED <<validation, response, path, outcome>>
    /\ UNCHANGED <<varsEval, varsAdk, varsRun>>

\* validation.validate_response(response=content_dict)
Validate ==
    /\ val_pc = "resolved"
    /\ outcome' = validate_response(validation, response)
    /\ val_pc' = "validated"
    /\ UNCHANGED <<validation, response, path, resolved>>
    /\ UNCHANGED <<varsEval, varsAdk, varsRun>>

NextVal == Resolve \/ Validate

-----------------------------------------------------------------------------
(* The specifications.                                                     *)

Init == InitEval /\ IdleAdk /\ IdleRun /\ IdleVal
Next == NextEval
Spec == Init /\ [][Next]_vars

InitSpecAdk == IdleEval /\ InitAdk /\ IdleRun /\ IdleVal
SpecAdk == InitSpecAdk /\ [][NextAdk]_vars

InitSpecRun == IdleEval /\ IdleAdk /\ InitRun /\ IdleVal
SpecRun == InitSpecRun /\ [][NextRun]_vars

InitSpecResolve == IdleEval /\ IdleAdk /\ IdleRun /\ InitVal
SpecResolve == InitSpecResolve /\ [][NextVal]_vars

-----------------------------------------------------------------------------
(* Properties of run_evals / run_single_eval (Spec).                       *)

ConfigOf(c) == eval_data_list[c].state_validation_config
DeclaredOf(c) ==
    IF ConfigOf(c) = None THEN <<>> ELSE ConfigOf(c).state_validation_calls
InvokedOf(c) == SelectSeq(invoked, LAMBDA e : e.case = c)

\* the calls made for case c are exactly its first m declared calls, each
\* once, in declared order
InvokedPrefix(c, m) ==
    /\ Len(InvokedOf(c)) = m
    /\ m <= Len(DeclaredOf(c))
    /\ \A j \in 1..m :
          /\ InvokedOf(c)[j].index = j
          /\ InvokedOf(c)[j].name = DeclaredOf(c)[j].tool_name
          /\ InvokedOf(c)[j].arguments = DeclaredOf(c)[j].arguments

\* C1: with fail_fast set, once the validation of call k has failed no
\* call declared after k is invoked: while the case is in its loop over
\* the calls, the number of calls made stays at the first failed one.
C1_FailFastStopsLaterCalls ==
    (pc = "validate" /\ Config.fail_fast /\ failed_at > 0) => k = failed_at

\* C2: with fail_fast unset, every declared call is invoked exactly once
\* and in declared order whatever the verdicts of the earlier calls: a
\* case in its loop has made exactly its first k declared calls, and a
\* case whose run_single_eval returned has made all of them.
C2_AllCallsInvokedInOrder ==
    /\ (pc = "validate" /\ ~Config.fail_fast) => InvokedPrefix(i, k)
    /\ (pc = "call_tool" /\ ~Config.fail_fast) => InvokedPrefix(i, k + 1)
    /\ \A c \in 1..Len(ended) :
          (/\ ConfigOf(c) # None
           /\ ~ConfigOf(c).fail_fast
           /\ ended[c].how = "returned")
          => InvokedPrefix(c, Len(DeclaredOf(c)))

\* call 1 failed its validation and call 2 was invoked all the same
C2_Witness ==
    /\ pc = "validate"
    /\ ~Config.fail_fast
    /\ failed_at = 1
    /\ k = 2
    /\ Len(InvokedOf(i)) = 2

\* C3: an exception of the agent run or of the validation of case c is
\* caught in run_evals: it never leaves run_evals, and when run_evals is
\* done every case of the batch has been attempted, in order.
C3_ExceptionsCaught ==
    /\ pc # "propagated"
    /\ returned \in {None, Exc("pending")}
    /\ \A c \in 1..Len(agent_runs) : agent_runs[c].case = c
    /\ Len(ended) \in {Len(agent_runs), Len(agent_runs) - 1}
    /\ pc = "done" =>
          /\ Len(agent_runs) = Len(eval_data_list)
          /\ Len(ended) = Len(eval_data_list)

\* case 1 raised in a validation call, case 2 was run all the same and
\* raised in the agent run, and run_evals finished
C3_Witness ==
    /\ pc = "done"
    /\ Len(ended) = 2
    /\ ended[1].how = "JSONDecodeError"
    /\ ended[2].how = "Exception"
    /\ Len(agent_runs) = 2

\* what run_evals hands back, as a list of outcome records
OutcomeRecords == IF TypeOf(returned) = "list" THEN ValOf(returned) ELSE <<>>

\* C4: when run_batch has finished on n cases there are exactly n outcome
\* records, one per case.
C4_OneOutcomePerCase ==
    pc = "done" => Len(OutcomeRecords) = Len(eval_data_list)

\* C5 (as claimed): with fail_fast unset, a failure of the tool caller on
\* call k stays with call k: every call declared after k is still invoked.
C5_TransportFailureIsolatedToCall ==
    \A c \in 1..Len(ended) :
        (ended[c].transport_at > 0 /\ ~ConfigOf(c).fail_fast)
        => InvokedPrefix(c, Len(DeclaredOf(c)))

\* C5 (amended): a failure of the tool caller on call k, whatever
\* fail_fast is, leaves run_single_eval as an exception: the case ends at
\* call k with no verdict, no call declared after k is invoked, and
\* run_evals catches it and goes on to the next case.
C5_TransportFailureEndsCase ==
    /\ transport_at > 0 =>
          /\ pc \in {"loop", "done", "agent_run"}
          /\ is_valid = None
          /\ Len(ended) >= i
    /\ \A c \in 1..Len(ended) :
          ended[c].transport_at > 0 =>
              /\ ended[c].how \in {"McpError", "RuntimeError"}
              /\ ended[c].at = ended[c].transport_at
              /\ InvokedPrefix(c, ended[c].at)
    /\ pc = "done" => Len(agent_runs) = Len(eval_data_list)

\* the tool caller failed on call 1 of 2 with fail_fast unset, and the
\* next case was run
C5_Witness ==
    \E c \in 1..Len(ended) :
        /\ ended[c].transport_at = 1
        /\ Len(DeclaredOf(c)) = 2
        /\ ~ConfigOf(c).fail_fast
        /\ Len(agent_runs) > c

-----------------------------------------------------------------------------
(* Properties of main (SpecAdk).                                           *)

RunIdx == {j \in 1..Len(adk_log) : adk_log[j].ev = "run"}

\* C6 on main (runner_adk.py): the backend is torn down after every case,
\* raised or not, and before the next case's run begins: every run starts
\* with the container removed, every run is directly followed by the stop
\* of the finally clause, and between two runs there is a stop that
\* succeeded.  Holds of SpecAdk.
C6_TeardownAfterEveryCase ==
    /\ adk_pc = "run" => container = "absent"
    /\ \A j \in RunIdx :
          IF j < Len(adk_log)
          THEN adk_log[j + 1].ev = "stop" /\ adk_log[j + 1].site = "after"
          ELSE adk_pc = "finally_stop"
    /\ \A j1 \in RunIdx, j2 \in RunIdx :
          j1 < j2 => \E m \in (j1 + 1)..(j2 - 1) :
                        adk_log[m].ev = "stop" /\ ~adk_log[m].raised

\* a case raised, the container was removed, and the next case was run
C6_Witness ==
    \E j1 \in RunIdx, j2 \in RunIdx :
        /\ j1 < j2
        /\ adk_log[j1].raised
        /\ adk_log[j2].case = adk_log[j1].case + 1

-----------------------------------------------------------------------------
(* Properties of JiraMcpAgent.run and parse_events_to_trajectory (SpecRun). *)

Rank(role) == CASE role = "user" -> 1 [] role = "tool" -> 2 [] OTHER -> 3

\* the messages of role r that came from event e
FromEvent(e, r) ==
    {trajectory_messages[j] : j \in {m \in 1..Len(trajectory_messages) :
                                       origin[m] = e
                                       /\ trajectory_messages[m].role = r}}

\* C7: the reconstructed messages are the concatenation, over the events
\* in input order, of each event's user, tool and assistant message in
\* that order, at most one of each: origins never decrease, within one
\* event the roles strictly follow user < tool < assistant, every message
\* carries its event's timestamp and author, and each event contributes
\* exactly what the three per-role steps derive from it.
C7_TrajectoryOrder ==
    run_pc \in {"parsing", "returned"} =>
        /\ Len(origin) = Len(trajectory_messages)
        /\ \A j \in 1..Len(trajectory_messages) :
              /\ origin[j] \in 1..parsed
              /\ trajectory_messages[j].timestamp
                     = new_events[origin[j]].timestamp
              /\ trajectory_messages[j].author = new_events[origin[j]].author
        /\ \A j \in 1..(Len(trajectory_messages) - 1) :
              \/ origin[j] < origin[j + 1]
              \/ /\ origin[j] = origin[j + 1]
                 /\ Rank(trajectory_messages[j].role)
                        < Rank(trajectory_messages[j + 1].role)
        /\ \A e \in 1..parsed :
              /\ FromEvent(e, "user")
                     = {process_user_message(new_events[e])} \ {None}
              /\ FromEvent(e, "tool")
                     = {process_tool_responses(new_events[e])} \ {None}
              /\ FromEvent(e, "assistant")
                     = {process_assistant_message(new_events[e])} \ {None}

\* the first event gave a tool message and then an assistant message, and
\* a message of the second event follows them
C7_Witness ==
    /\ run_pc = "returned"
    /\ Len(trajectory_messages) >= 3
    /\ origin[1] = 1 /\ trajectory_messages[1].role = "tool"
    /\ origin[2] = 1 /\ trajectory_messages[2].role = "assistant"
    /\ origin[3] = 2

\* C8: the returned Trajectory starts with the synthetic user Message
\* (role user, author "user", the prompt as input text, the submission
\* time as timestamp) and continues with the reconstructed messages
\* unchanged, whatever the events are.
C8_SyntheticPromptFirst ==
    run_pc = "returned" =>
        /\ TypeOf(run_result) = "list"
        /\ Len(ValOf(run_result)) = 1 + Len(trajectory_messages)
        /\ ValOf(run_result)[1] =
               [timestamp |-> timestamp_usr_msg, author |-> "user",
                role |-> "user", user_text_input |-> Str(prompt),
                assistant_text_response |-> None,
                assistant_tool_calls |-> None, tool_results |-> None]
        /\ Tail(ValOf(run_result)) = trajectory_messages
        /\ Tail(ValOf(run_result)) = parse_events_to_trajectory(new_events)

\* the events start with a user-authored event carrying the prompt, and
\* the trajectory holds the prompt twice
C8_Witness ==
    /\ run_pc = "returned"
    /\ Len(new_events) >= 1
    /\ new_events[1].author = "user"
    /\ Len(ValOf(run_result)) >= 2
    /\ ValOf(run_result)[2].role = "user"
    /\ ValOf(run_result)[2].user_text_input = Str(prompt)
    /\ ValOf(run_result)[1].user_text_input = Str(prompt)

-----------------------------------------------------------------------------
(* Properties of the path resolver and the evaluator (SpecResolve).        *)

AllDigits(seg) ==
    seg # <<>> /\ \A j \in 1..Len(seg) : seg[j] \in DigitChars
DenotesIndex(seg) == \A j \in 1..Len(seg) : seg[j] \in DecimalChars

\* whether every segment resolves, as the claims state it: an all-digit
\* segment only as an in-bounds index into a sequence, any other segment
\* only as an existing key of a mapping
RECURSIVE Reaches(_, _)
Reaches(node, segs) ==
    IF segs = <<>> THEN TRUE
    ELSE LET seg == Head(segs) IN
         IF AllDigits(seg)
         THEN /\ TypeOf(node) = "list"
              /\ DenotesIndex(seg)
              /\ IntValue(seg) < Len(ValOf(node))
              /\ Reaches(ValOf(node)[IntValue(seg) + 1], Tail(segs))
         ELSE /\ TypeOf(node) = "dict"
              /\ seg \in DOMAIN ValOf(node)
              /\ Reaches(ValOf(node)[seg], Tail(segs))

\* the value reached by a path whose every segment resolves
RECURSIVE Reached(_, _)
Reached(node, segs) ==
    IF segs = <<>> THEN node
    ELSE IF AllDigits(Head(segs))
    THEN Reached(ValOf(node)[IntValue(Head(segs)) + 1], Tail(segs))
    ELSE Reached(ValOf(node)[Head(segs)], Tail(segs))

\* C9: resolve never raises; it gives the value reached when every
\* segment resolves and absent (None) otherwise.
C9_ResolveNeverRaises ==
    val_pc \in {"resolved", "validated"} =>
        /\ ~IsExc(resolved)
        /\ resolved = IF Reaches(response, Split(path))
                      THEN Reached(response, Split(path))
                      ELSE None

\* C10: a presence expectation passes exactly when its path resolves to
\* a value present in the response, a null value included.
C10_PresencePassesOnNull ==
    (/\ val_pc = "validated"
     /\ validation.expected_fields = None
     /\ validation.expected_field_presence = List(<<path>>)
     /\ ~IsExc(outcome))
    => (ValOf(outcome) <=> Reaches(response, Split(path)))

\* C11: an expected_fields entry passes exactly when its path resolves to
\* a value present in the response that is structurally equal to the
\* expected value; an absent path fails for every expected value, null
\* included.
C11_FieldFailsWhenAbsent ==
    (/\ val_pc = "validated"
     /\ validation.expected_fields # None
     /\ Len(ValOf(validation.expected_fields)) = 1
     /\ ValOf(validation.expected_fields)[1].path = path
     /\ validation.expected_field_presence = None
     /\ ~IsExc(outcome))
    => (ValOf(outcome) <=>
            /\ Reaches(response, Split(path))
            /\ Reached(response, Split(path))
                   = ValOf(validation.expected_fields)[1].expected)

\* the entries a validation declares, unset read as none
FieldEntries(v) ==
    IF v.expected_fields = None THEN <<>> ELSE ValOf(v.expected_fields)
PresenceEntries(v) ==
    IF v.expected_field_presence = None THEN <<>>
    ELSE ValOf(v.expected_field_presence)

\* whether one entry passes: the verdict of the validation that declares
\* that entry alone
FieldEntryPasses(entry, resp) ==
    validate_response([tool_name |-> "jira_search", arguments |-> "jql",
                       expected_fields |-> List(<<entry>>),
                       expected_field_presence |-> None], resp) = Bool(TRUE)
PresenceEntryPasses(p, resp) ==
    validate_response([tool_name |-> "jira_search", arguments |-> "jql",
                       expected_fields |-> None,
                       expected_field_presence |-> List(<<p>>)], resp)
        = Bool(TRUE)

\* C12: a validation passes exactly when every expected_fields entry and
\* every expected_field_presence entry passes; with both empty or unset
\* it passes for every response.
C12_VerdictIsConjunction ==
    val_pc = "validated" =>
        /\ (outcome = Bool(TRUE)) <=>
               /\ \A j \in 1..Len(FieldEntries(validation)) :
                      FieldEntryPasses(FieldEntries(validation)[j], response)
               /\ \A j \in 1..Len(PresenceEntries(validation)) :
                      PresenceEntryPasses(PresenceEntries(validation)[j],
                                          response)
        /\ (FieldEntries(validation) = <<>>
            /\ PresenceEntries(validation) = <<>>) => outcome = Bool(TRUE)

\* two expected_fields entries of which the first passes and the second
\* fails, and two presence entries: the verdict is a failure
C12_Witness ==
    /\ val_pc = "validated"
    /\ Len(FieldEntries(validation)) = 2
    /\ Len(PresenceEntries(validation)) = 2
    /\ FieldEntryPasses(FieldEntries(validation)[1], response)
    /\ ~FieldEntryPasses(FieldEntries(validation)[2], response)
    /\ outcome = Bool(FALSE)

-----------------------------------------------------------------------------
(* Properties of the per-event reconstruction steps (SpecRun).             *)

\* the response parts of an event, and those with a name and a body
ResponsePartsOf(event) ==
    SelectSeq(PartsOf(event), LAMBDA part : part.function_response # None)
WellFormedResponses(event) ==
    SelectSeq(ResponsePartsOf(event),
              LAMBDA part : /\ part.function_response.name # None
                            /\ part.function_response.response # None)
\* name and result body of each well-formed response part, in part order
ExpectedResults(event) ==
    [j \in 1..Len(WellFormedResponses(event)) |->
        <<WellFormedResponses(event)[j].function_response.name,
          WellFormedResponses(event)[j].function_response.response>>]
\* positions of the tool messages that came from event e
ToolIdx(e) ==
    {m \in 1..Len(trajectory_messages) :
        origin[m] = e /\ trajectory_messages[m].role = "tool"}
\* name and result body of each entry of a tool message
ResultsOf(msg) ==
    [j \in 1..Len(ValOf(msg.tool_results)) |->
        <<ValOf(msg.tool_results)[j].name,
          ValOf(msg.tool_results)[j].result_data>>]

\* C13 as stated: every event with at least one response part gives
\* exactly one tool Message, whose results are the well-formed response
\* parts in part order.
C13_ToolMessagePerResponseEvent ==
    run_pc \in {"parsing", "returned"} =>
        \A e \in 1..parsed :
            ResponsePartsOf(new_events[e]) # <<>> =>
                /\ Cardinality(ToolIdx(e)) = 1
                /\ \A m \in ToolIdx(e) :
                      /\ trajectory_messages[m].tool_results # None
                      /\ ResultsOf(trajectory_messages[m])
                             = ExpectedResults(new_events[e])

\* C13 (amended): an event with at least one well-formed response part
\* gives exactly one tool Message, whose results are the well-formed
\* response parts in part order, none with a missing name or body; an
\* event whose response parts all miss the name or the body gives no
\* tool Message.
C13_ToolMessageHoldsWellFormedResults ==
    run_pc \in {"parsing", "returned"} =>
        \A e \in 1..parsed :
            ResponsePartsOf(new_events[e]) # <<>> =>
                IF ExpectedResults(new_events[e]) = <<>>
                THEN ToolIdx(e) = {}
                ELSE /\ Cardinality(ToolIdx(e)) = 1
                     /\ \A m \in ToolIdx(e) :
                           /\ trajectory_messages[m].tool_results # None
                           /\ ResultsOf(trajectory_messages[m])
                                  = ExpectedResults(new_events[e])
                           /\ \A j \in 1..Len(ResultsOf(trajectory_messages[m])) :
                                 /\ ResultsOf(trajectory_messages[m])[j][1] # None
                                 /\ ResultsOf(trajectory_messages[m])[j][2] # None

\* an event with four response parts, two of them malformed, gave a tool
\* message with two results, and an event with only a malformed response
\* part was parsed too
C13_Witness ==
    /\ run_pc = "returned"
    /\ \E e \in 1..parsed :
          /\ Len(ResponsePartsOf(new_events[e])) = 4
          /\ \E m \in ToolIdx(e) :
                Len(ValOf(trajectory_messages[m].tool_results)) = 2
    /\ \E e \in 1..parsed :
          /\ ResponsePartsOf(new_events[e]) # <<>>
          /\ WellFormedResponses(new_events[e]) = <<>>

\* the text parts of an event: parts with a text that are not
\* function-call or function-response parts
TextPartsOf(event) ==
    SelectSeq(PartsOf(event),
              LAMBDA part : /\ part.text # None
                            /\ part.function_call = None
                            /\ part.function_response = None)
AllTextEmpty(event) ==
    /\ TextPartsOf(event) # <<>>
    /\ \A j \in 1..Len(TextPartsOf(event)) :
          ValOf(TextPartsOf(event)[j].text) = <<>>
\* the request parts with a name and arguments
WellFormedCalls(event) ==
    SelectSeq(PartsOf(event),
              LAMBDA part : /\ part.function_call # None
                            /\ part.function_call.name # None
                            /\ part.function_call.args # None)
RoleIdx(e, r) ==
    {m \in 1..Len(trajectory_messages) :
        origin[m] = e /\ trajectory_messages[m].role = r}

\* C14 as stated: text parts that are all "" count as text: a user event
\* gives a user Message with input text "", a non-user event gives an
\* assistant Message with text ""; an event with no text parts gives no
\* user Message and no assistant text.
C14_EmptyTextCountsAsText ==
    run_pc \in {"parsing", "returned"} =>
        \A e \in 1..parsed :
            LET event == new_events[e] IN
            /\ (event.author = "user" /\ AllTextEmpty(event)) =>
                   /\ Cardinality(RoleIdx(e, "user")) = 1
                   /\ \A m \in RoleIdx(e, "user") :
                         trajectory_messages[m].user_text_input = Str(<<>>)
            /\ (event.author # "user" /\ AllTextEmpty(event)) =>
                   /\ Cardinality(RoleIdx(e, "assistant")) = 1
                   /\ \A m \in RoleIdx(e, "assistant") :
                         trajectory_messages[m].assistant_text_response
                             = Str(<<>>)
            /\ TextPartsOf(event) = <<>> =>
                   /\ RoleIdx(e, "user") = {}
                   /\ \A m \in RoleIdx(e, "assistant") :
                         trajectory_messages[m].assistant_text_response = None

\* C14 (amended): as stated for user events and for events with no text
\* parts; a non-user event whose text parts are all "" gives an assistant
\* Message, carrying text "" rather than absent, only when it also holds
\* a well-formed tool request, and no assistant Message otherwise.
C14_EmptyTextNeedsRequest ==
    run_pc \in {"parsing", "returned"} =>
        \A e \in 1..parsed :
            LET event == new_events[e] IN
            /\ (event.author = "user" /\ AllTextEmpty(event)) =>
                   /\ Cardinality(RoleIdx(e, "user")) = 1
                   /\ \A m \in RoleIdx(e, "user") :
                         trajectory_messages[m].user_text_input = Str(<<>>)
            /\ (event.author # "user" /\ AllTextEmpty(event)) =>
                   IF WellFormedCalls(event) # <<>>
                   THEN /\ Cardinality(RoleIdx(e, "assistant")) = 1
                        /\ \A m \in RoleIdx(e, "assistant") :
                              /\ trajectory_messages[m].assistant_text_response
                                     = Str(<<>>)
                              /\ trajectory_messages[m].assistant_tool_calls
                                     # None
                   ELSE RoleIdx(e, "assistant") = {}
            /\ TextPartsOf(event) = <<>> =>
                   /\ RoleIdx(e, "user") = {}
                   /\ \A m \in RoleIdx(e, "assistant") :
                         trajectory_messages[m].assistant_text_response = None

\* a non-user event with text "" and a well-formed request gave an
\* assistant message with text "", and a non-user event with only text ""
\* gave no assistant message
C14_Witness ==
    /\ run_pc = "returned"
    /\ \E e \in 1..parsed :
          /\ new_events[e].author # "user"
          /\ AllTextEmpty(new_events[e])
          /\ \E m \in RoleIdx(e, "assistant") :
                trajectory_messages[m].assistant_text_response = Str(<<>>)
    /\ \E e \in 1..parsed :
          /\ new_events[e].author # "user"
          /\ AllTextEmpty(new_events[e])
          /\ RoleIdx(e, "assistant") = {}

\* positions of all the messages that came from event e
EventIdx(e) == {m \in 1..Len(trajectory_messages) : origin[m] = e}

\* C16: no event gives both a user Message and an assistant Message: a
\* user Message comes only from an event authored by "user", an assistant
\* Message only from another author; so an event gives at most two
\* Messages and the Trajectory over n events holds at most 1 + 2n.
C16_UserAndAssistantExclusive ==
    /\ run_pc \in {"parsing", "returned"} =>
          \A e \in 1..parsed :
              /\ RoleIdx(e, "user") # {} => new_events[e].author = "user"
              /\ RoleIdx(e, "assistant") # {} => new_events[e].author # "user"
              /\ ~(RoleIdx(e, "user") # {} /\ RoleIdx(e, "assistant") # {})
              /\ Cardinality(EventIdx(e)) <= 2
    /\ run_pc = "returned" =>
          Len(ValOf(run_result)) <= 1 + 2 * Len(new_events)

\* a user event gave a user and a tool message, an agent event gave a
\* tool and an assistant message, and the Trajectory holds 1 + 2n messages
C16_Witness ==
    /\ run_pc = "returned"
    /\ Len(new_events) = 2
    /\ Len(ValOf(run_result)) = 5
    /\ RoleIdx(1, "user") # {} /\ RoleIdx(1, "tool") # {}
    /\ RoleIdx(2, "tool") # {} /\ RoleIdx(2, "assistant") # {}

-----------------------------------------------------------------------------
(* Backend lifecycle in the batch (Spec).                                  *)

\* C6 (as claimed, on run_evals): the orchestrator tears the tool backend
\* down after every case, whether the case returned or raised, and before
\* the next case's agent run begins: once a case of the batch has ended,
\* and until the next one is begun, the container that
\* JiraMCPServer.initialize started for the batch is removed.
C6_BatchTearsDownAfterEveryCase ==
    (/\ pc \in {"loop", "done"}
     /\ Len(ended) >= 1
     /\ started = "mcp-atlassian")
    => container = "absent"

-----------------------------------------------------------------------------
(* Sequencing of the batch (Spec).                                         *)

CaseOver == {"case_end", "case_failed"}

\* C15: the batch is strictly sequential.  The operations are logged in
\* case order; a case's agent run starts only when the case before it
\* has ended or failed; a validation call is issued only after the
\* agent run of its case returned, with the Trajectory built from the
\* whole event stream, and only calls of that case lie in between; and
\* nothing of a case follows its end.
C15_StrictlySequential ==
    /\ \A a \in 1..Len(oplog), b \in 1..Len(oplog) :
          a < b => oplog[a].case <= oplog[b].case
    /\ \A a \in 1..Len(oplog) :
          oplog[a].op = "run_start" =>
              IF a = 1 THEN oplog[a].case = 1
              ELSE /\ oplog[a - 1].op \in CaseOver
                   /\ oplog[a - 1].case = oplog[a].case - 1
    /\ \A a \in 1..Len(oplog) :
          oplog[a].op = "call" =>
              \E b \in 1..(a - 1) :
                  /\ oplog[b].op = "run_end"
                  /\ oplog[b].case = oplog[a].case
                  /\ \A c \in (b + 1)..(a - 1) :
                        oplog[c].op = "call" /\ oplog[c].index < oplog[a].index
                  /\ oplog[a].trajectory =
                         List(<<UserMsg(PromptOf(eval_data_list[oplog[a].case]),
                                        100)>>
                              \o parse_events_to_trajectory(oplog[b].events))
    /\ \A a \in 1..(Len(oplog) - 1) :
          oplog[a].op \in CaseOver =>
              oplog[a + 1].op = "run_start"
    /\ \A a \in 1..Len(oplog) :
          oplog[a].op \in {"run_end", "run_raised"} =>
              /\ a > 1
              /\ oplog[a - 1].op = "run_start"
              /\ oplog[a - 1].case = oplog[a].case

\* the first case consumed a two-event stream, issued two calls and
\* failed on the second; the second case then ran and issued a call
C15_Witness ==
    /\ pc = "done"
    /\ \E a \in 1..Len(oplog) :
          /\ oplog[a].op = "run_end" /\ oplog[a].case = 1
          /\ Len(oplog[a].events) = 2
    /\ \E a \in 1..Len(oplog) :
          oplog[a].op = "call" /\ oplog[a].case = 1 /\ oplog[a].index = 2
    /\ \E a \in 1..Len(oplog) :
          oplog[a].op = "case_failed" /\ oplog[a].case = 1
    /\ \E a \in 1..Len(oplog) :
          oplog[a].op = "call" /\ oplog[a].case = 2

====
